---- MODULE Spec2Model ----
(***************************************************************************)
(* A model of pictureprocess: ProcessFiles (pkg/imagedup/deduplicator.go), *)
(* its worker pool, the reducer filterUniqueFiles, the placement loop with  *)
(* writeIndexJSON, and the date resolver ExtractDate (pkg/dateutil).        *)
(*                                                                         *)
(* A file of the source tree is a record                                    *)
(*   [ext, size, pix, exif, fname, mtime]                                   *)
(* and is identified by its position in the tree (its path).  The outcome   *)
(* of every system call (open, stat, decode, mkdir, copy, ledger I/O) is    *)
(* chosen by the environment at the moment of the call.                     *)
(***************************************************************************)
EXTENDS Integers, Sequences, FiniteSets, TLC

\* ------------------------------------------------------------------ bounds
MaxFiles == 3
MaxWorkers == 2
MaxSize == 2
MaxHash == 2

\* ------------------------------------------------- extension tables (l.21-40)
SupportedImageFormats == {".jpg", ".jpeg", ".png"}

SupportedRawFormats ==
  {".nef", ".cr2", ".cr3", ".arw", ".rw2", ".orf", ".raf", ".pef", ".dng",
   ".raw", ".kdc", ".sr2", ".mos", ".mrw"}

SupportedVideoFormats == {".avi", ".mp4", ".mkv", ".mov"}

\* strings.ToLower on the extensions the model draws from
ToLower(e) ==
  CASE e = ".JPG" -> ".jpg"
    [] e = ".PNG" -> ".png"
    [] e = ".NEF" -> ".nef"
    [] e = ".MP4" -> ".mp4"
    [] OTHER -> e

\* the extension is looked up as it is spelled
ClassOfCaseSensitive(e) ==
  IF e \in SupportedImageFormats THEN "image"
  ELSE IF e \in SupportedRawFormats THEN "raw"
  ELSE IF e \in SupportedVideoFormats THEN "video"
  ELSE "unsupported"

\* the if / else-if chain of the worker (l.83-95) and of the copied counters
ClassOf(e) ==
  IF ToLower(e) \in SupportedImageFormats THEN "image"
  ELSE IF ToLower(e) \in SupportedRawFormats THEN "raw"
  ELSE IF ToLower(e) \in SupportedVideoFormats THEN "video"
  ELSE "unsupported"

Classes == {"image", "raw", "video"}

\* ------------------------------------------------------------ input domains
NoDate == "none"
D1 == "2021-06-01"
D2 == "2020-01-01"
Dates == {D1, D2}

Exts == {".JPG", ".nef", ".mp4", ".txt"}

File(e, s, p, x, n, m) ==
  [ext |-> e, size |-> s, pix |-> p, exif |-> x, fname |-> n, mtime |-> m]

\* Files of the pipeline specification: every class, every size, every
\* perceptual hash; one date, carried by the modification time.
PipelineFiles ==
  { File(".JPG", s, p, NoDate, NoDate, D1) : s \in 1..MaxSize, p \in 1..MaxHash }
  \cup { File(e, s, 0, NoDate, NoDate, D1) : e \in {".nef", ".mp4"}, s \in 1..MaxSize }
  \cup { File(".txt", 1, 0, NoDate, NoDate, D1) }

SeqsUpTo(S, n) == UNION { [1..k -> S] : k \in 0..n }

VARIABLES
  tree,            \* the regular files under srcDir, in walk order
  numWorkers,      \* the numWorkers argument
  pc,              \* position of ProcessFiles
  ret,             \* its return value: "running", "nil", "err"
  fileList,        \* l.50
  next,            \* index of the dispatch loop l.102
  fileChan,        \* l.72: paths in flight
  fileClosed,      \* close(fileChan) l.106
  resultChan,      \* l.73: records in flight
  resultClosed,    \* close(resultChan) l.108
  wpc,             \* position of each worker goroutine
  wrec,            \* the record a worker is about to send
  count,           \* imageCount, rawCount, videoCount
  copied,          \* imageCopied, rawCopied, videoCopied
  duplicates,      \* imageDuplicates, rawDuplicates, videoDuplicates
  processedFiles,  \* l.74
  sent,            \* per class, the records pushed to resultChan so far
  unique,          \* filterUniqueFiles: unique, then uniqueFiles
  hashSizes,       \* filterUniqueFiles: hashSizes
  consumed,        \* the records the reducer's range loop has received so far
  dateCounters,    \* l.116
  dirs,            \* destination directories that exist
  destFiles,       \* destination files: <<dir, name>> -> content
  ledger,          \* index.json of each destination directory
  pending,         \* keys of uniqueFiles the range loop l.118 has not visited
  werr,            \* result of the last writeIndexJSON call l.143
  dateCall,        \* one call of a fingerprint function: file, answers, results
  firstRun         \* the names an earlier placement phase gave to the same records

vars ==
  <<tree, numWorkers, pc, ret, fileList, next, fileChan, fileClosed, resultChan,
    resultClosed, wpc, wrec, count, copied, duplicates, processedFiles,
    sent, unique, hashSizes, consumed, dateCounters, dirs, destFiles, ledger, pending,
    werr, dateCall, firstRun>>

Workers == 1..MaxWorkers

\* ----------------------------------------------------------- small helpers
EmptyDate == ""
AllDirs == Dates \cup {EmptyDate}
NoRun == {<<0, EmptyDate, [digits |-> <<>>, ext |-> ""]>>}
Err == "error"
NoRec == [hash |-> 0, filename |-> 0, isoDate |-> NoDate]
EmptyMap == <<>>

imageInfo(h, f, d) == [hash |-> h, filename |-> f, isoDate |-> d]

\* filepath.Ext(fileInfo.filename): the extension of the path a record names
ExtOf(i) == tree[i].ext

\* uint64 subtraction a - b: [borrow, low] stands for borrow * 2^64 + low
\* (low is negative exactly when the subtraction wrapped)
USub64(a, b) == [borrow |-> IF a >= b THEN 0 ELSE 1, low |-> a - b]

Zero3 == [c \in Classes |-> 0]

\* ------------------------------------------------ dateutil (date_parser.go)
\* What the environment answers while one file is fingerprinted:
\*   img   where processImageFile fails, if anywhere
\*   stat  the os.Stat of processRawFile / processVideoFile
\*   exif  whether the EXIF block can be opened and decoded
\*   mstat the os.Stat of extractFileModTime
\*   cstat the os.Stat of extractFileCreationDate
ImgOutcomes == {"ok", "open", "config", "decode", "hash"}

WorkIO ==
  [img : ImgOutcomes, stat : BOOLEAN, exif : BOOLEAN, mstat : BOOLEAN, cstat : BOOLEAN]

extractExifDate(f, io) == IF io.exif /\ f.exif # NoDate THEN f.exif ELSE Err

\* the date the regexp and the layouts find in the file name, if any
extractDateFromFilename(f) == IF f.fname # NoDate THEN f.fname ELSE Err

extractFileModTime(f, io) == IF io.mstat THEN f.mtime ELSE Err

\* the file name is tried before the EXIF block
ExtractDateNameFirst(f, io) ==
  IF extractDateFromFilename(f) # Err THEN extractDateFromFilename(f)
  ELSE IF extractExifDate(f, io) # Err THEN extractExifDate(f, io)
  ELSE extractFileModTime(f, io)

\* l.19-32
ExtractDate(f, io) ==
  IF extractExifDate(f, io) # Err THEN extractExifDate(f, io)
  ELSE IF extractDateFromFilename(f) # Err THEN extractDateFromFilename(f)
  ELSE extractFileModTime(f, io)

extractFileCreationDate(f, io) == IF io.cstat THEN f.mtime ELSE Err

\* ------------------------------------------- fingerprinting (l.221-316)
\* Each returns the record to send, or NoRec when the function returns
\* without sending.
processImageFile(i, io) ==
  LET f == tree[i] IN
  IF io.img # "ok" THEN NoRec
  ELSE IF ExtractDate(f, io) = Err THEN NoRec
  ELSE imageInfo(f.pix, i, ExtractDate(f, io))

processRawFile(i, io) ==
  LET f == tree[i]
      date == IF ExtractDate(f, io) # Err THEN ExtractDate(f, io)
              ELSE IF extractFileCreationDate(f, io) # Err
                   THEN extractFileCreationDate(f, io)
                   ELSE EmptyDate
  IN IF ~io.stat THEN NoRec ELSE imageInfo(f.size, i, date)

processVideoFile(i, io) ==
  LET f == tree[i]
      date == IF ExtractDate(f, io) # Err THEN ExtractDate(f, io)
              ELSE IF extractFileCreationDate(f, io) # Err
                   THEN extractFileCreationDate(f, io)
                   ELSE EmptyDate
  IN IF ~io.stat THEN NoRec ELSE imageInfo(f.size, i, date)

processByClass(c, i, io) ==
  CASE c = "image" -> processImageFile(i, io)
    [] c = "raw" -> processRawFile(i, io)
    [] c = "video" -> processVideoFile(i, io)
    [] OTHER -> NoRec

\* no fingerprint function has been called
NoCall ==
  [file |-> 0,
   io |-> [img |-> "ok", stat |-> TRUE, exif |-> TRUE, mstat |-> TRUE, cstat |-> TRUE],
   date |-> Err, rec |-> NoRec]

\* ------------------------------------------------------------ ProcessFiles
\* the output queue buffered like the input queue
ResultCapWorkers == numWorkers

\* make(chan imageInfo, len(fileList)) l.73
ResultCap == Len(fileList)

\* the walk's error is dropped
AfterWalkIgnoringErr(err, list) == IF Len(list) = 0 THEN "returned" ELSE "launch"

\* where ProcessFiles goes after filepath.Walk (l.62-69)
AfterWalk(err, list) ==
  IF err THEN "returned" ELSE IF Len(list) = 0 THEN "returned" ELSE "launch"

\* l.53-69: the walk appends the files it reaches; an error stops it
Walk ==
  /\ pc = "walk"
  /\ \E err \in BOOLEAN, k \in 0..Len(tree) :
        /\ ~err => k = Len(tree)
        /\ fileList' = SubSeq(tree, 1, k)
        /\ pc' = AfterWalk(err, SubSeq(tree, 1, k))
        /\ ret' = IF err THEN "err"
                  ELSE IF AfterWalk(err, SubSeq(tree, 1, k)) = "returned" THEN "nil"
                  ELSE ret
  /\ UNCHANGED <<tree, numWorkers, next, fileChan, fileClosed, resultChan,
                 resultClosed, wpc, wrec, count, copied, duplicates,
                 processedFiles, sent, unique, hashSizes, consumed, dateCounters, dirs,
                 destFiles, ledger, pending, werr,
                 dateCall, firstRun>>

\* l.71-100: the channels are made and numWorkers goroutines are started
Launch ==
  /\ pc = "launch"
  /\ wpc' = [w \in Workers |-> IF w <= numWorkers THEN "idle" ELSE "off"]
  /\ next' = 1
  /\ pc' = "dispatch"
  /\ UNCHANGED <<tree, numWorkers, ret, fileList, fileChan, fileClosed, resultChan,
                 resultClosed, wrec, count, copied, duplicates,
                 processedFiles, sent, unique, hashSizes, consumed, dateCounters, dirs,
                 destFiles, ledger, pending, werr,
                 dateCall, firstRun>>

\* l.102-104: fileChan <- fileName blocks while the buffer (numWorkers) is full
Dispatch ==
  /\ pc = "dispatch"
  /\ next <= Len(fileList)
  /\ Len(fileChan) < numWorkers
  /\ fileChan' = Append(fileChan, next)
  /\ next' = next + 1
  /\ UNCHANGED <<tree, numWorkers, pc, ret, fileList, fileClosed, resultChan,
                 resultClosed, wpc, wrec, count, copied, duplicates,
                 processedFiles, sent, unique, hashSizes, consumed, dateCounters, dirs,
                 destFiles, ledger, pending, werr,
                 dateCall, firstRun>>

\* l.106
CloseInput ==
  /\ pc = "dispatch"
  /\ next > Len(fileList)
  /\ fileClosed' = TRUE
  /\ pc' = "wait"
  /\ UNCHANGED <<tree, numWorkers, ret, fileList, next, fileChan, resultChan,
                 resultClosed, wpc, wrec, count, copied, duplicates,
                 processedFiles, sent, unique, hashSizes, consumed, dateCounters, dirs,
                 destFiles, ledger, pending, werr,
                 dateCall, firstRun>>

\* close(resultChan) without waiting for the workers
WaitReturnsAtOnce == TRUE

\* l.107: wg.Wait returns once each of the numWorkers goroutines has run
\* wg.Done
WaitReturns == \A w \in Workers : wpc[w] \in {"off", "exited"}

\* l.107-108: wg.Wait, close(resultChan)
Join ==
  /\ pc = "wait"
  /\ WaitReturns
  /\ resultClosed' = TRUE
  /\ pc' = "filter"
  /\ UNCHANGED <<tree, numWorkers, ret, fileList, next, fileChan, fileClosed,
                 resultChan, wpc, wrec, count, copied, duplicates,
                 processedFiles, sent, unique, hashSizes, consumed, dateCounters, dirs,
                 destFiles, ledger, pending, werr,
                 dateCall, firstRun>>

\* ------------------------------------------------------- a worker (l.80-99)
\* What the environment can answer while a file of class c is fingerprinted
\* (one representative for the answers the code does not read).
WorkIOOf(c) ==
  IF c = "image"
  THEN { io \in WorkIO : io.stat /\ io.cstat /\ (io.img # "ok" => io.exif /\ io.mstat) }
  ELSE { io \in WorkIO : io.img = "ok" /\ (~io.stat => io.exif /\ io.mstat /\ io.cstat) }

\* the counter is only advanced in the branches of the supported classes
ProcessedSupportedOnly(n, c) == IF c \in Classes THEN n + 1 ELSE n

\* l.96: atomic.AddUint64(&processedFiles, 1) follows every branch of the
\* if / else-if chain, the one of the unsupported extensions included
Processed(n, c) == n + 1

\* l.82-97 up to the send: receive a path, classify its lowercased
\* extension, count it, fingerprint it.  A file that yields no record is
\* counted as processed (l.96) and the worker waits for the next path.
Recv(w) ==
  /\ wpc[w] = "idle"
  /\ fileChan # <<>>
  /\ LET i == Head(fileChan)
         c == ClassOf(ExtOf(i))
     IN /\ fileChan' = Tail(fileChan)
        /\ count' = IF c \in Classes THEN [count EXCEPT ![c] = @ + 1] ELSE count
        /\ \E io \in WorkIOOf(c) :
              LET r == processByClass(c, i, io) IN
              /\ wrec' = [wrec EXCEPT ![w] = r]
              /\ wpc' = [wpc EXCEPT ![w] = IF r = NoRec THEN "idle" ELSE "send"]
              /\ processedFiles' = IF r = NoRec THEN Processed(processedFiles, c)
                                    ELSE processedFiles
  /\ UNCHANGED <<tree, numWorkers, pc, ret, fileList, next, fileClosed, resultChan,
                 resultClosed, copied, duplicates, sent, unique, hashSizes,
                 consumed, dateCounters, dirs, destFiles, ledger, pending, werr,
                 dateCall, firstRun>>

\* l.257, 284, 311: resultChan <- imageInfo{...} blocks while the buffer is
\* full; then l.96: atomic.AddUint64(&processedFiles, 1)
Send(w) ==
  /\ wpc[w] = "send"
  /\ Len(resultChan) < ResultCap
  /\ resultChan' = Append(resultChan, wrec[w])
  /\ wrec' = [wrec EXCEPT ![w] = NoRec]
  /\ processedFiles' = processedFiles + 1
  /\ sent' = [sent EXCEPT ![ClassOf(ExtOf(wrec[w].filename))] = @ + 1]
  /\ wpc' = [wpc EXCEPT ![w] = "idle"]
  /\ UNCHANGED <<tree, numWorkers, pc, ret, fileList, next, fileChan, fileClosed,
                 resultClosed, count, copied, duplicates, unique, hashSizes,
                 consumed, dateCounters, dirs, destFiles, ledger, pending, werr,
                 dateCall, firstRun>>

\* l.82, 81: the range loop ends on the closed, drained channel; wg.Done
Exit(w) ==
  /\ wpc[w] = "idle"
  /\ fileChan = <<>>
  /\ fileClosed
  /\ wpc' = [wpc EXCEPT ![w] = "exited"]
  /\ UNCHANGED <<tree, numWorkers, pc, ret, fileList, next, fileChan, fileClosed,
                 resultChan, resultClosed, wrec, count, copied, duplicates,
                 processedFiles, sent, unique, hashSizes, consumed, dateCounters, dirs,
                 destFiles, ledger, pending, werr,
                 dateCall, firstRun>>

\* ------------------------------------------ filterUniqueFiles (l.331-345)
\* the last record of a fingerprint wins
ReplacesAlways(exists, fileSize, stored) == TRUE

\* the comparison is reversed
ReplacesSmaller(exists, fileSize, stored) == ~exists \/ fileSize < stored

\* a record of equal size replaces the stored one
ReplacesOnTie(exists, fileSize, stored) == ~exists \/ fileSize >= stored

\* l.338: the record replaces the stored one
Replaces(exists, fileSize, stored) == ~exists \/ fileSize > stored

\* l.335-341: one iteration; os.Stat succeeded
Filter ==
  /\ pc = "filter"
  /\ resultChan # <<>>
  /\ LET fileInfo == Head(resultChan)
         h == fileInfo.hash
         fileSize == tree[fileInfo.filename].size
         exists == h \in DOMAIN unique
         stored == IF h \in DOMAIN hashSizes THEN hashSizes[h] ELSE 0
     IN /\ resultChan' = Tail(resultChan)
        /\ consumed' = Append(consumed, fileInfo)
        /\ IF Replaces(exists, fileSize, stored)
           THEN /\ unique' = (h :> fileInfo) @@ unique
                /\ hashSizes' = (h :> fileSize) @@ hashSizes
           ELSE UNCHANGED <<unique, hashSizes>>
  /\ UNCHANGED <<tree, numWorkers, pc, ret, fileList, next, fileChan, fileClosed,
                 resultClosed, wpc, wrec, count, copied, duplicates,
                 processedFiles, sent, dateCounters, dirs, destFiles, ledger, pending,
                 werr,
                 dateCall, firstRun>>

\* l.336-337: os.Stat fails, its error is dropped and info is nil:
\* info.Size() dereferences nil and the program panics
FilterPanic ==
  /\ pc = "filter"
  /\ resultChan # <<>>
  /\ pc' = "panic"
  /\ ret' = "panic"
  /\ UNCHANGED <<tree, numWorkers, fileList, next, fileChan, fileClosed, resultChan,
                 resultClosed, wpc, wrec, count, copied, duplicates,
                 processedFiles, sent, unique, hashSizes, consumed, dateCounters, dirs,
                 destFiles, ledger, pending, werr,
                 dateCall, firstRun>>

\* l.344, 112-116: the drained channel ends the loop; hashSizes is dropped
FilterReturn ==
  /\ pc = "filter"
  /\ resultChan = <<>>
  /\ resultClosed
  /\ pending' = DOMAIN unique
  /\ hashSizes' = EmptyMap
  /\ consumed' = <<>>
  /\ pc' = "place"
  /\ UNCHANGED <<tree, numWorkers, ret, fileList, next, fileChan, fileClosed,
                 resultChan, resultClosed, wpc, wrec, count, copied,
                 duplicates, processedFiles, sent, unique, dateCounters, dirs, destFiles,
                 ledger, werr,
                 dateCall, firstRun>>

\* ------------------------------------------------- placement (l.116-156)
\* fmt.Sprintf("%03d", n): the decimal digits of n, zero-padded to three
RECURSIVE Digits(_)
Digits(n) == IF n < 10 THEN <<n>> ELSE Append(Digits(n \div 10), n % 10)

Pad3(n) ==
  LET ds == Digits(n) IN
  IF Len(ds) >= 3 THEN ds ELSE [k \in 1..(3 - Len(ds)) |-> 0] \o ds

\* l.133: fmt.Sprintf("%03d%s", dateCounters[dateStr], filepath.Ext(...))
NewFileName(n, e) == [digits |-> Pad3(n), ext |-> e]

\* What the environment answers while one record is placed.
\*   mkdir os.MkdirAll; rel filepath.Rel;
\*   copy  "nofile": os.Open or os.Create fails; "partial": io.Copy fails
\*   index "open": os.OpenFile fails; "write": Encode fails after Truncate(0)
\* (one representative for the answers the code does not reach)
CopyOutcomes == {"ok", "nofile", "partial"}
IndexOutcomes == {"ok", "open", "write"}
PlaceIO ==
  { io \in [mkdir : BOOLEAN, rel : BOOLEAN, copy : CopyOutcomes, index : IndexOutcomes] :
      /\ ~io.mkdir => io.rel
      /\ ~(io.mkdir /\ io.rel) => io.copy = "ok"
      /\ ~(io.mkdir /\ io.rel /\ io.copy = "ok") => io.index = "ok" }

\* l.348-366: the destination files after copyFile(src, dir/name);
\* os.Create truncates a file already there, io.Copy may stop half way
copyFile(files, src, d, name, out) ==
  IF out = "nofile" THEN files
  ELSE { x \in files : ~(x.dir = d /\ x.name = name) }
       \cup { [dir |-> d, name |-> name, src |-> src, full |-> (out = "ok")] }

\* index.json contents
Absent == [kind |-> "absent", entries |-> EmptyMap]
Garbage == [kind |-> "garbage", entries |-> EmptyMap]
Object(m) == [kind |-> "object", entries |-> m]

\* the existing entries are not read back
MergeOverwrite(existingData, mapping) == mapping

\* l.192-195: for k, v := range mapping { existingData[k] = v }
Merge(existingData, mapping) ==
  [k \in DOMAIN existingData \cup DOMAIN mapping |->
     IF k \in DOMAIN mapping THEN mapping[k] ELSE existingData[k]]

\* l.174-203: the file after the call, and whether an error is returned.
\* A missing file is created empty and decodes to io.EOF (an empty map);
\* undecodable content returns the decoder's error before anything is written;
\* a failing Encode comes after Truncate(0).
writeIndexJSON(led, mapping, out) ==
  IF out = "open" THEN [led |-> led, err |-> TRUE]
  ELSE IF led.kind = "garbage" THEN [led |-> led, err |-> TRUE]
  ELSE IF out = "write" THEN [led |-> Object(EmptyMap), err |-> TRUE]
  ELSE [led |-> Object(Merge(led.entries, mapping)), err |-> FALSE]

\* every placed record is counted as an image
CopiedClassImage(i) == "image"

\* l.149-155: the class whose copied counter a placed record increments
CopiedClass(i) == ClassOf(ExtOf(i))

\* the counter is never advanced
CounterAfterStuck(n, io) == n

\* l.132: the counter is incremented once the directory exists and the
\* relative path is known, before the copy is attempted
CounterAfter(n, io) == IF io.mkdir /\ io.rel THEN n + 1 ELSE n

\* l.118-156: one iteration of the range loop over uniqueFiles
Place ==
  /\ pc = "place"
  /\ \E h \in pending, io \in PlaceIO :
        LET fileInfo == unique[h]
            i == fileInfo.filename
            d == fileInfo.isoDate
            n == CounterAfter(dateCounters[d], io)
            name == NewFileName(n, ExtOf(i))
            reached == io.mkdir /\ io.rel
            copyOk == reached /\ io.copy = "ok"
            w == writeIndexJSON(ledger[d], i :> name, io.index)
            c == CopiedClass(i)
        IN /\ pending' = pending \ {h}
           /\ dirs' = IF io.mkdir THEN dirs \cup {d} ELSE dirs
           /\ dateCounters' = [dateCounters EXCEPT ![d] = n]
           /\ destFiles' = IF reached THEN copyFile(destFiles, i, d, name, io.copy)
                            ELSE destFiles
           /\ ledger' = IF copyOk THEN [ledger EXCEPT ![d] = w.led] ELSE ledger
           /\ werr' = IF ~copyOk THEN "none" ELSE IF w.err THEN "err" ELSE "nil"
           /\ copied' = IF copyOk /\ ~w.err /\ c \in Classes
                         THEN [copied EXCEPT ![c] = @ + 1] ELSE copied
  /\ UNCHANGED <<tree, numWorkers, pc, ret, fileList, next, fileChan, fileClosed,
                 resultChan, resultClosed, wpc, wrec, count, duplicates,
                 processedFiles, sent, unique, hashSizes, consumed,
                 dateCall, firstRun>>

\* l.158-170: duplicates are derived, the summary is printed, nil is returned
Summary ==
  /\ pc = "place"
  /\ pending = {}
  /\ duplicates' = [c \in Classes |-> USub64(count[c], copied[c])]
  /\ pc' = "returned"
  /\ ret' = "nil"
  /\ UNCHANGED <<tree, numWorkers, fileList, next, fileChan, fileClosed, resultChan,
                 resultClosed, wpc, wrec, count, copied, processedFiles, sent,
                 unique, hashSizes, consumed, dateCounters, dirs, destFiles, ledger,
                 pending, werr,
                 dateCall, firstRun>>

\* --------------------------------------------------------- specifications
InitRun ==
  /\ pc = "walk"
  /\ ret = "running"
  /\ fileList = <<>>
  /\ next = 0
  /\ fileChan = <<>>
  /\ fileClosed = FALSE
  /\ resultChan = <<>>
  /\ resultClosed = FALSE
  /\ wpc = [w \in Workers |-> "off"]
  /\ wrec = [w \in Workers |-> NoRec]
  /\ count = Zero3
  /\ copied = Zero3
  /\ duplicates = [c \in Classes |-> USub64(0, 0)]
  /\ processedFiles = 0
  /\ sent = Zero3
  /\ unique = EmptyMap
  /\ hashSizes = EmptyMap
  /\ consumed = <<>>
  /\ dateCounters = [d \in AllDirs |-> 0]
  /\ dirs = {}
  /\ destFiles = {}
  /\ pending = {}
  /\ werr = "none"
  /\ dateCall = NoCall
  /\ firstRun = NoRun

\* The pipeline on every tree of at most MaxFiles files, with an empty
\* destination.
Init ==
  /\ tree \in SeqsUpTo(PipelineFiles, MaxFiles)
  /\ numWorkers \in 0..MaxWorkers
  /\ ledger = [d \in AllDirs |-> Absent]
  /\ InitRun

\* The same run on trees of images that differ in fingerprint and date, into
\* a destination that earlier runs may have written: the ledger of a date
\* directory is missing, undecodable, or an object with the entry of a path
\* that is not in this tree (key 0) or of the first path of this tree.
LedgerFiles ==
  { File(".JPG", 1, p, NoDate, NoDate, m) : p \in 1..MaxHash, m \in Dates }

OldName == NewFileName(7, ".JPG")

PreLedgers == {Absent, Garbage, Object(0 :> OldName), Object(1 :> OldName)}

InitLedger ==
  /\ tree \in SeqsUpTo(LedgerFiles, MaxFiles)
  /\ numWorkers \in 1..MaxWorkers
  /\ ledger \in { l \in [AllDirs -> PreLedgers] :
                    l[EmptyDate] = Absent /\ l[D2] \in {Absent, Object(0 :> OldName)} }
  /\ InitRun

\* One call of ExtractDate and of the fingerprint function of the file's
\* class, on an image or a RAW file with or without an EXIF date, with or
\* without a date in its name, under every answer of the environment.
DateFiles ==
  { File(e, 1, IF e = ".JPG" THEN 1 ELSE 0, x, n, m) :
      e \in {".JPG", ".nef"}, x \in Dates \cup {NoDate}, n \in Dates \cup {NoDate},
      m \in Dates }

InitDate ==
  /\ tree \in [1..1 -> DateFiles]
  /\ numWorkers = 1
  /\ ledger = [d \in AllDirs |-> Absent]
  /\ InitRun

CallFingerprint ==
  /\ dateCall = NoCall
  /\ \E i \in 1..Len(tree) :
        \E io \in WorkIOOf(ClassOf(ExtOf(i))) :
          dateCall' = [file |-> i, io |-> io, date |-> ExtractDate(tree[i], io),
                       rec |-> processByClass(ClassOf(ExtOf(i)), i, io)]
  /\ UNCHANGED <<tree, numWorkers, pc, ret, fileList, next, fileChan, fileClosed,
                 resultChan, resultClosed, wpc, wrec, count, copied, duplicates,
                 processedFiles, sent, unique, hashSizes, consumed, dateCounters,
                 dirs, destFiles, ledger, pending, werr, firstRun>>

DateNext == CallFingerprint

\* The placement loop run a second time over the same uniqueFiles of the same
\* tree into an empty destination; firstRun keeps the names the first run
\* gave to the files it copied completely.
Names(files) == { <<x.src, x.dir, x.name>> : x \in { y \in files : y.full } }

InitTwoRun ==
  /\ tree \in SeqsUpTo(LedgerFiles, MaxFiles)
  /\ numWorkers = 1
  /\ ledger = [d \in AllDirs |-> Absent]
  /\ InitRun

Rerun ==
  /\ pc = "returned"
  /\ ret = "nil"
  /\ Len(fileList) > 0
  /\ firstRun = NoRun
  /\ firstRun' = Names(destFiles)
  /\ dateCounters' = [d \in AllDirs |-> 0]
  /\ dirs' = {}
  /\ destFiles' = {}
  /\ ledger' = [d \in AllDirs |-> Absent]
  /\ copied' = Zero3
  /\ duplicates' = [c \in Classes |-> USub64(0, 0)]
  /\ werr' = "none"
  /\ pending' = DOMAIN unique
  /\ pc' = "place"
  /\ ret' = "running"
  /\ UNCHANGED <<tree, numWorkers, fileList, next, fileChan, fileClosed, resultChan,
                 resultClosed, wpc, wrec, count, processedFiles, sent, unique,
                 hashSizes, consumed, dateCall>>

Worker == \E w \in Workers : Recv(w) \/ Send(w) \/ Exit(w)

Next ==
  \/ Walk
  \/ Launch
  \/ Dispatch
  \/ CloseInput
  \/ Worker
  \/ Join
  \/ Filter
  \/ FilterPanic
  \/ FilterReturn
  \/ Place
  \/ Summary

Spec == Init /\ [][Next]_vars

LedgerSpec == InitLedger /\ [][Next]_vars

DateSpec == InitDate /\ [][DateNext]_vars

TwoRunNext == Next \/ Rerun

TwoRunSpec == InitTwoRun /\ [][TwoRunNext]_vars

\* ------------------------------------------------------------------ claims
Range(q) == { q[k] : k \in 1..Len(q) }
SizeOf(r) == tree[r.filename].size
WithHash(S, h) == { r \in S : r.hash = h }
Hashes(S) == { r.hash : r \in S }
Returned == pc = "returned" /\ ret = "nil" /\ Len(fileList) > 0

\* C1: after the reducer has consumed any prefix of the output queue, the
\* UniqueSet holds exactly the fingerprints of the prefix, and the record
\* stored for a fingerprint is a record of the prefix with that fingerprint
\* whose file size is the maximum over the prefix's records with it (the
\* auxiliary size map holds that maximum).
C1_LargestRetained ==
  pc = "filter" =>
    /\ DOMAIN unique = Hashes(Range(consumed))
    /\ DOMAIN hashSizes = DOMAIN unique
    /\ \A h \in DOMAIN unique :
          /\ unique[h] \in WithHash(Range(consumed), h)
          /\ hashSizes[h] = SizeOf(unique[h])
          /\ \A r \in WithHash(Range(consumed), h) : SizeOf(r) <= SizeOf(unique[h])

\* a smaller record arrived after a larger one with the same fingerprint,
\* and a larger one after a smaller one with another: both arrival orders
C1_Witness ==
  /\ pc = "filter"
  /\ \E j, k \in 1..Len(consumed) :
        /\ j < k
        /\ consumed[j].hash = consumed[k].hash
        /\ SizeOf(consumed[j]) > SizeOf(consumed[k])
  /\ Len(consumed) = 3

\* no two records of one fingerprint are backed by files of the same size
DistinctSizes(S) ==
  \A r1, r2 \in S : (r1 # r2 /\ r1.hash = r2.hash) => SizeOf(r1) # SizeOf(r2)

\* the record of fingerprint h backed by the largest file
Largest(S, h) ==
  CHOOSE r \in WithHash(S, h) : \A r2 \in WithHash(S, h) : SizeOf(r2) <= SizeOf(r)

\* C2: when the records of each fingerprint have pairwise different sizes,
\* the UniqueSet after the reduction is a function of the set of records
\* alone: for each fingerprint the one record of maximal size, whatever the
\* order in which the workers pushed the records.
C2_OrderIndependent ==
  (pc = "filter" /\ resultChan = <<>> /\ DistinctSizes(Range(consumed))) =>
    unique = [h \in Hashes(Range(consumed)) |-> Largest(Range(consumed), h)]

\* the reduction is over, and the record kept for a fingerprint arrived
\* before a smaller one of the same fingerprint and after another record
C2_Witness ==
  /\ pc = "filter"
  /\ resultChan = <<>>
  /\ DistinctSizes(Range(consumed))
  /\ Len(consumed) = 3
  /\ \E j, k \in 1..Len(consumed) :
        /\ j < k
        /\ consumed[j].hash = consumed[k].hash
        /\ consumed[j].filename > consumed[k].filename
        /\ unique[consumed[j].hash] = consumed[j]

\* C3: for every class copied <= seen, in every state and so at the end of
\* every run, where duplicates = seen - copied has not wrapped.
C3_CopiedAtMostSeen ==
  /\ \A c \in Classes : copied[c] <= count[c]
  /\ pc = "returned" => \A c \in Classes : duplicates[c].borrow = 0

\* a run ends with a copied image, a failed raw file and a lost duplicate
C3_Witness ==
  /\ Returned
  /\ copied["image"] = 1
  /\ count["image"] = 2
  /\ count["raw"] = 1
  /\ sent["raw"] = 0

\* C4: an image file that yields no record contributes to neither count of
\* the summary: the image duplicates are the fingerprinted images that were
\* not copied.
C4_FailedImageNotCounted ==
  Returned => duplicates["image"].low = sent["image"] - copied["image"]

\* C5: the records in the output queue and the workers about to send are
\* at most the paths dispatched, which are at most the enumerated files, the
\* queue's capacity; a worker about to send finds room.
C5_SendNeverBlocks ==
  /\ Len(resultChan) <= Len(fileList)
  /\ pc \in {"dispatch", "wait"} =>
       Len(resultChan) + Cardinality({ w \in Workers : wpc[w] = "send" }) <= next - 1
  /\ \A w \in Workers : wpc[w] = "send" => Len(resultChan) < ResultCap

\* the queue is filled to its capacity while the workers still run
C5_Witness ==
  /\ pc = "wait"
  /\ Len(resultChan) = ResultCap
  /\ Len(fileList) = MaxFiles
  /\ \E w \in Workers : wpc[w] = "idle"

\* C6: a run on a non-empty file list is never stuck: until ProcessFiles
\* has returned, some step of it or of a worker is possible.
C6_NeverStuck == (pc = "returned") \/ ENABLED Next

\* C7: no per-file failure aborts the run: ProcessFiles only ever ends by
\* returning, with the walk's error or with nil after the summary.
C7_OnlyEnumerationFatal == pc # "panic"

\* C8: when the walk fails ProcessFiles returns its error and nothing else
\* has happened: no worker, no record, no destination change, no counter.
C8_WalkErrorNoProcessing ==
  ret = "err" =>
    /\ pc = "returned"
    /\ \A w \in Workers : wpc[w] = "off"
    /\ fileChan = <<>> /\ resultChan = <<>> /\ unique = EmptyMap
    /\ dirs = {} /\ destFiles = {}
    /\ \A d \in AllDirs : ledger[d] = Absent /\ dateCounters[d] = 0
    /\ count = Zero3 /\ copied = Zero3 /\ processedFiles = 0

\* the walk failed after it had collected files
C8_Witness == ret = "err" /\ Len(fileList) = MaxFiles - 1

\* the number a destination file name starts with
RECURSIVE ValueOf(_)
ValueOf(ds) ==
  IF Len(ds) = 0 THEN 0 ELSE 10 * ValueOf(SubSeq(ds, 1, Len(ds) - 1)) + ds[Len(ds)]

\* the files copied completely into a date directory in this run
PlacedIn(d) == { x \in destFiles : x.dir = d /\ x.full }

\* C9: at the end of a run the counter of each date directory is the number
\* of files placed there, and their names carry exactly the numbers 1..k.
C9_CounterPerPlacedFile ==
  Returned =>
    \A d \in Dates :
      /\ dateCounters[d] = Cardinality(PlacedIn(d))
      /\ { ValueOf(x.name.digits) : x \in PlacedIn(d) } = 1..Cardinality(PlacedIn(d))

\* C10: a writeIndexJSON that returns nil leaves, in the record's date
\* directory, a ledger whose keys are the keys it had plus the record's
\* relative path, mapped to the new file name; every other key keeps its
\* value, and no other directory's ledger changes.
C10_LedgerAdditive ==
  [][ \A h \in pending \ pending' :
        werr' = "nil" =>
          LET d == unique[h].isoDate
              i == unique[h].filename
              old == ledger[d].entries
              new == ledger'[d].entries
          IN /\ ledger'[d].kind = "object"
             /\ DOMAIN new = DOMAIN old \cup {i}
             /\ new[i] = NewFileName(dateCounters'[d], ExtOf(i))
             /\ \A k \in DOMAIN old \ {i} : new[k] = old[k]
             /\ \A e \in AllDirs \ {d} : ledger'[e] = ledger[e] ]_vars

\* a ledger written by an earlier run has received two entries of this run
C10_Witness ==
  /\ werr = "nil"
  /\ \E d \in Dates :
        /\ ledger[d].kind = "object"
        /\ 0 \in DOMAIN ledger[d].entries
        /\ ledger[d].entries[0] = OldName
        /\ Cardinality(DOMAIN ledger[d].entries) = 3

\* the entries of the ledger of a date directory
LedgerPairs(d) == { <<k, ledger[d].entries[k]>> : k \in DOMAIN ledger[d].entries }

\* C11: at the end of a run into an empty destination, the ledger of every
\* date directory holds exactly the pairs (relative source path, file name)
\* of the files copied into that directory in this run.
C11_LedgerMatchesFiles ==
  Returned =>
    \A d \in Dates : LedgerPairs(d) = { <<x.src, x.name>> : x \in PlacedIn(d) }

\* C12: the output queue is closed only once the input queue is closed and
\* every worker has exited, so no worker holds a record to send on the
\* closed queue; the reducer and the placement loop run, and leave their
\* effects, only after that close.
C12_PhaseOrder ==
  /\ resultClosed => (fileClosed /\ \A w \in Workers : wpc[w] \in {"off", "exited"})
  /\ pc \in {"filter", "place", "panic"} => resultClosed
  /\ ~resultClosed =>
       /\ unique = EmptyMap /\ consumed = <<>> /\ pending = {}
       /\ dirs = {} /\ destFiles = {} /\ copied = Zero3
       /\ \A d \in AllDirs : dateCounters[d] = 0 /\ ledger[d] = Absent

\* the placement loop is under way after a run of several workers
C12_Witness ==
  /\ pc = "place"
  /\ numWorkers = MaxWorkers
  /\ pending # {}
  /\ Cardinality(destFiles) = 1

\* C13: no increment of the processed-file counter is lost: while the
\* workers run it counts the paths received and done with (dispatched, no
\* longer queued, not held by a worker about to send), it never exceeds the
\* file count, and once the join has returned it is the number of files.
C13_ProcessedCounter ==
  /\ pc \in {"dispatch", "wait"} =>
       processedFiles =
         (next - 1) - Len(fileChan) - Cardinality({ w \in Workers : wpc[w] = "send" })
  /\ processedFiles <= Len(fileList)
  /\ pc \in {"filter", "place", "panic"} => processedFiles = Len(fileList)

\* the join has returned on a tree with an unsupported file, a file that
\* failed and a file that was fingerprinted
C13_Witness ==
  /\ pc = "filter"
  /\ processedFiles = MaxFiles
  /\ \E i \in 1..Len(fileList) : ClassOf(ExtOf(i)) = "unsupported"
  /\ Len(resultChan) = 1
  /\ count["image"] + count["raw"] + count["video"] = 2

\* C14: every record pushed to the output queue, held by the reducer or
\* placed carries a resolved date.
C14_RecordsHaveDate ==
  /\ \A k \in 1..Len(resultChan) : resultChan[k].isoDate \in Dates
  /\ \A h \in DOMAIN unique : unique[h].isoDate \in Dates

\* C15: ExtractDate returns the EXIF date whenever the EXIF tier succeeds,
\* whatever the file name and the modification time are; else the date of
\* the file name whenever there is one; else the modification time; and it
\* fails exactly when all three tiers fail, the last by a failing stat.
C15_DateFallbackOrder ==
  dateCall.file # 0 =>
    LET f == tree[dateCall.file]
        tier1 == dateCall.io.exif /\ f.exif # NoDate
        tier2 == f.fname # NoDate
        tier3 == dateCall.io.mstat
    IN /\ tier1 => dateCall.date = f.exif
       /\ (~tier1 /\ tier2) => dateCall.date = f.fname
       /\ (~tier1 /\ ~tier2 /\ tier3) => dateCall.date = f.mtime
       /\ (dateCall.date = Err) <=> (~tier1 /\ ~tier2 /\ ~tier3)

\* EXIF date 2021-06-01, a name that carries 2020-01-01 and a modification
\* time of 2020-01-01: the EXIF date is returned
C15_Witness ==
  /\ dateCall.file # 0
  /\ tree[dateCall.file].exif = D1
  /\ tree[dateCall.file].fname = D2
  /\ tree[dateCall.file].mtime = D2
  /\ dateCall.io.exif
  /\ dateCall.date = D1

\* the files of the records that survive the filter
Survivors == { unique[h].filename : h \in DOMAIN unique }

\* C16: two runs of the placement loop over the same uniqueFiles into an
\* empty destination, each of which copies every surviving record, give
\* every record the same date directory and file name.
C16_SameNamesInBothRuns ==
  ( /\ Returned
    /\ firstRun # NoRun
    /\ { t[1] : t \in firstRun } = Survivors
    /\ { t[1] : t \in Names(destFiles) } = Survivors )
  => Names(destFiles) = firstRun

\* the position in q of the first record with fingerprint h whose file is as
\* large as the file of every record of q with that fingerprint
FirstLargest(q, h) ==
  CHOOSE j \in 1..Len(q) :
    /\ q[j].hash = h
    /\ \A k \in 1..Len(q) : q[k].hash = h => SizeOf(q[k]) <= SizeOf(q[j])
    /\ \A k \in 1..(j - 1) : q[k].hash = h => SizeOf(q[k]) < SizeOf(q[j])

\* C17: while the filter drains the result channel, the record kept for a
\* fingerprint is the first one received among those with the largest file:
\* a later record of equal size is discarded, only a strictly larger one
\* replaces the stored record.
C17_FirstArrivalKeptOnTie ==
  pc = "filter" =>
    /\ DOMAIN unique = Hashes(Range(consumed))
    /\ \A h \in DOMAIN unique : unique[h] = consumed[FirstLargest(consumed, h)]

\* two records of one fingerprint and equal size were received, the one of
\* the file enumerated second first, and it is the one kept
C17_Witness ==
  /\ pc = "filter"
  /\ Len(consumed) = 2
  /\ consumed[1].hash = consumed[2].hash
  /\ SizeOf(consumed[1]) = SizeOf(consumed[2])
  /\ consumed[1].filename > consumed[2].filename
  /\ unique[consumed[1].hash] = consumed[1]

\* the extension table of a class
FormatsOf(c) ==
  CASE c = "image" -> SupportedImageFormats
    [] c = "raw" -> SupportedRawFormats
    [] c = "video" -> SupportedVideoFormats

\* the paths that left the input channel
Received == { i \in 1..Len(fileList) : i < next /\ i \notin Range(fileChan) }

\* the files of the records held by a sending worker or by the result channel
InFlight ==
  { wrec[w].filename : w \in { v \in Workers : wpc[v] = "send" } }
  \cup { r.filename : r \in Range(resultChan) }

\* C18: every path leaves the input channel once; the seen counter of a
\* class is the number of received files whose lowercased extension is in
\* the class's table, whether or not a record came of them, and after the
\* join that is every such file of the list; a record exists only for a
\* received file of a supported class, and at most one per file.
C18_SeenCountedOnReceive ==
  /\ \A c \in Classes :
        /\ count[c] = Cardinality({ i \in Received : ToLower(ExtOf(i)) \in FormatsOf(c) })
        /\ sent[c] <= count[c]
  /\ \A k, l \in 1..Len(fileChan) : fileChan[k] = fileChan[l] => k = l
  /\ resultClosed => Received = 1..Len(fileList)
  /\ pc \in {"dispatch", "wait"} =>
        /\ Cardinality(InFlight)
             = Cardinality({ w \in Workers : wpc[w] = "send" }) + Len(resultChan)
        /\ \A i \in InFlight :
              /\ i \in Received
              /\ \E c \in Classes : ToLower(ExtOf(i)) \in FormatsOf(c)

\* after the join of two workers: two images seen, one of them without a
\* record, and a file of no class in the list
C18_Witness ==
  /\ resultClosed
  /\ numWorkers = MaxWorkers
  /\ Len(fileList) = MaxFiles
  /\ count["image"] = 2
  /\ sent["image"] = 1
  /\ \E i \in 1..Len(fileList) : \A c \in Classes : ToLower(ExtOf(i)) \notin FormatsOf(c)

\* the fingerprint of a file: the perceptual hash of an image, the byte size
\* of a RAW or video file
FingerprintOf(i) == IF ClassOf(ExtOf(i)) = "image" THEN tree[i].pix ELSE tree[i].size

\* the fingerprints among the files of class c
ClassFingerprints(c) ==
  { FingerprintOf(i) : i \in { j \in 1..Len(fileList) : ClassOf(ExtOf(j)) = c } }

\* C19: in a run that fingerprints every supported file and places every
\* surviving record, the copied count of each class is the number of
\* distinct fingerprints among the files of that class, and its duplicates
\* count is seen minus that number.
C19_DuplicatesPerClass ==
  ( /\ Returned
    /\ \A c \in Classes : sent[c] = count[c]
    /\ copied["image"] + copied["raw"] + copied["video"] = Cardinality(DOMAIN unique) )
  => \A c \in Classes :
       /\ copied[c] = Cardinality(ClassFingerprints(c))
       /\ duplicates[c] = USub64(count[c], Cardinality(ClassFingerprints(c)))

\* C20: a step of the run never removes or replaces a destination file: the
\* counter of a date directory only grows, a file that appears is named by
\* the new value of the counter of its directory, greater than the value
\* before, and no two destination files of a directory carry one number,
\* whatever their extensions and whether or not they were copied completely.
C20_NoOverwriteInRun ==
  [][ /\ \A d \in AllDirs : dateCounters'[d] >= dateCounters[d]
      /\ \A x \in destFiles : x \in destFiles'
      /\ \A y \in destFiles' \ destFiles :
            /\ ValueOf(y.name.digits) = dateCounters'[y.dir]
            /\ dateCounters'[y.dir] > dateCounters[y.dir]
      /\ \A x, y \in destFiles' :
            (x.dir = y.dir /\ x.name.digits = y.name.digits) => x = y ]_vars

\* two files of different extensions in one date directory, one of them
\* copied half way, under the numbers 1 and 2
C20_Witness ==
  /\ Cardinality(destFiles) = 2
  /\ \E x, y \in destFiles :
        /\ x.dir = y.dir
        /\ x.name.ext # y.name.ext
        /\ ~x.full
        /\ y.full
        /\ {ValueOf(x.name.digits), ValueOf(y.name.digits)} = {1, 2}
====
